---------------------------- MODULE Spec2Model ----------------------------
(***************************************************************************)
(* fetchcode: fetch(url, location) retrieves a resource over HTTP(S) or    *)
(* FTP and stores it on the local file system.                             *)
(*                                                                         *)
(* Representation.                                                         *)
(*   - A character string that is used as a path (a Content-Disposition    *)
(*     file name, the path of a URL) is kept in split form: the sequence   *)
(*     of its pieces between "/" characters.  "" is <<"">>, "/a.txt" is    *)
(*     <<"", "a.txt">>, "../a.txt" is <<"..", "a.txt">>.  A string in      *)
(*     split form always has at least one piece.                           *)
(*   - A local path (pathlib.Path) is the sequence of its parts below the  *)
(*     root; the root directory is <<>>.  pathlib keeps ".." parts; the    *)
(*     operating system resolves them when the path is used.               *)
(*   - An optional value is a sequence of length 0 (None) or 1.            *)
(*   - A byte string is a sequence over Byte.                              *)
(***************************************************************************)
EXTENDS Integers, Sequences, FiniteSets, TLC

VARIABLES
    url,        \* the URL argument of fetch: [scheme, path]
    http,       \* what the HTTP server answers for url
    ftp,        \* what the FTP server answers for url
    arg,        \* the location argument of fetch (optional path)
    pc,         \* position of the running call
    location,   \* the local variable `location`
    r,          \* the local variable `r` of fetch_http (optional response)
    size,       \* the local variable `size` of fetch_ftp (optional integer)
    pos,        \* number of chunks RETR has delivered to f.write
    files,      \* the file system: path -> bytes, for every regular file
    handles,    \* paths of the files this call holds open
    conn,       \* FTP control connection: "none", "open", "closed"
    log,        \* network commands and file opens issued so far, in order
    result,     \* optional Response returned by the call
    err,        \* optional exception raised by the call: [kind, at]
    calls,      \* number of calls of fetch started
    first       \* outcome of the first call, once a second one is started

vars == <<url, http, ftp, arg, pc, location, r, size, pos, files, handles,
          conn, log, result, err, calls, first>>

-----------------------------------------------------------------------------
(* Bounds of the model *)

\* longest Content-Disposition file name, in pieces between "/"
MaxNameParts == 2
\* longest URL path, in pieces after the leading "/"
MaxUrlParts == 2
\* longest body, in bytes (HTTP) or chunks (FTP)
MaxBody == 2
\* longest content-length header value, in characters
MaxDigits == 2

-----------------------------------------------------------------------------
(* Values *)

None == <<>>
Some(x) == <<x>>

Byte == {0, 1}
Piece == {"", "..", "a.txt"}
Char == {"0", "1", "x"}

SeqUpTo(S, n) == UNION {[1..k -> S] : k \in 0..n}
SeqFromTo(S, m, n) == UNION {[1..k -> S] : k \in m..n}

Bodies == SeqUpTo(Byte, MaxBody)
\* character strings in split form
Names == SeqFromTo(Piece, 1, MaxNameParts)
\* the path component of a URL: empty, or "/" followed by pieces
UrlPaths == {<<"">>} \cup {<<"">> \o s : s \in SeqFromTo(Piece, 1, MaxUrlParts)}
HeaderValues == SeqUpTo(Char, MaxDigits)


-----------------------------------------------------------------------------
(* pathlib.PurePosixPath, on strings in split form *)

\* PurePosixPath(s): empty pieces and "." pieces are dropped, ".." is kept
PurePosixPath(s) ==
    [abs   |-> Len(s) >= 2 /\ s[1] = "",
     parts |-> SelectSeq(s, LAMBDA c : c \notin {"", "."})]

\* PurePosixPath.name: the last part, "" when there is none
PathName(p) == IF p.parts = <<>> THEN "" ELSE p.parts[Len(p.parts)]

\* PurePosixPath.parent: the path without its last part
PathParent(p) ==
    IF p.parts = <<>> THEN p
    ELSE [abs |-> p.abs, parts |-> SubSeq(p.parts, 1, Len(p.parts) - 1)]

\* str(PurePosixPath), back in split form
PathStr(p) ==
    IF p.abs THEN (IF p.parts = <<>> THEN <<"", "">> ELSE <<"">> \o p.parts)
    ELSE (IF p.parts = <<>> THEN <<".">> ELSE p.parts)

\* location / filename: an absolute right operand replaces the left one
JoinPath(loc, filename) ==
    LET f == PurePosixPath(filename)
    IN  IF f.abs THEN f.parts ELSE loc \o f.parts

\* urlparse(url).scheme: urlsplit lower-cases the scheme
Lower(s) == IF s = "HTTP" THEN "http" ELSE s
urlparse(u) == [scheme |-> Lower(u.scheme), netloc |-> u.netloc, path |-> u.path]

-----------------------------------------------------------------------------
(* The local file system *)

\* the directories that exist; the program creates none
Dirs == {<<>>, <<"tmp">>, <<"d1">>, <<"d2">>}
\* tempfile.gettempdir()
TempDir == <<"tmp">>
\* the names tempfile can draw
TmpNames == {"tmp1", "tmp2"}
\* the files that exist before the first call
InitFiles == (<<"old">> :> <<2>>)

Parent(path) == IF path = <<>> THEN <<>> ELSE SubSeq(path, 1, Len(path) - 1)

\* path resolution by the operating system: every part is looked up in the
\* directory reached so far, ".." steps to its parent
RECURSIVE Walk(_, _)
Walk(cur, rest) ==
    IF rest = <<>> THEN [ok |-> TRUE, path |-> cur]
    ELSE IF cur \notin Dirs THEN [ok |-> FALSE, path |-> cur]
    ELSE Walk(IF Head(rest) = ".." THEN Parent(cur) ELSE Append(cur, Head(rest)),
              Tail(rest))

Resolve(path) == Walk(<<>>, path).path

\* Path.exists in the place of Path.is_dir: a file counts too
path_exists(path) ==
    Walk(<<>>, path).ok /\ (Resolve(path) \in Dirs \/ Resolve(path) \in DOMAIN files)

\* Path.is_dir(location)
is_dir(path) == Walk(<<>>, path).ok /\ Resolve(path) \in Dirs

\* whether open(path, "wb") succeeds: the directory exists and the path does
\* not name a directory
CanOpen(path) == Walk(<<>>, path).ok /\ Resolve(path) \notin Dirs

\* open(path, "wb") creates the file or truncates it
Truncated(fs, path) ==
    [q \in DOMAIN fs \cup {Resolve(path)} |->
        IF q = Resolve(path) THEN <<>> ELSE fs[q]]

\* tempfile.NamedTemporaryFile(dir=d, delete=False): the paths it can create
TempPaths(fs, d) == {Append(d, n) : n \in {m \in TmpNames : Append(d, m) \notin DOMAIN fs}}

Created(fs, path) == [q \in DOMAIN fs \cup {path} |-> IF q = path THEN <<>> ELSE fs[q]]

Handle(name, path) == [name |-> name, path |-> path]

-----------------------------------------------------------------------------
(* Conversions *)

Digit == {"0", "1"}
DigitVal(c) == IF c = "1" THEN 1 ELSE 0

\* whether int(s) accepts the string s
IsDecimal(s) == Len(s) >= 1 /\ \A i \in 1..Len(s) : s[i] \in Digit

\* int(s) for a decimal string
RECURSIVE IntOf(_)
IntOf(s) ==
    IF s = <<>> THEN 0
    ELSE 10 * IntOf(SubSeq(s, 1, Len(s) - 1)) + DigitVal(s[Len(s)])

\* MimeTypes().guess_type(filename)[0]: a lookup by extension
guess_type(filename) == IF filename = "a.txt" THEN Some("text/plain") ELSE None

Response(loc, content_type, sz, u) ==
    [url |-> u, size |-> sz, content_type |-> content_type, location |-> loc]

-----------------------------------------------------------------------------
(* The servers: what they answer for the URL of the call *)

Url(scheme, path) == [scheme |-> scheme, netloc |-> "host", path |-> path]

\* An HTTP response as fetch_http reads it: the filename* and filename
\* parameters of content-disposition, the content-type and content-length
\* headers, and r.content, the decoded body.  The content-length header is
\* what the server sent: it counts the bytes on the wire, which are not the
\* decoded bytes when the body is sent with a content-encoding.
HttpAnswer(fnstar, fn, ctype, clen, content) ==
    [fnstar |-> fnstar, fn |-> fn, ctype |-> ctype, clen |-> clen, content |-> content]

\* An FTP server: its reply to SIZE ("213" with a number, "other" for another
\* positive reply, "error" for a 4xx/5xx reply) and the chunks RETR delivers.
\* The number is the server's own count, taken before the transfer type is
\* set to binary.
FtpAnswer(kind, n, chunks) == [reply |-> [kind |-> kind, n |-> n], chunks |-> chunks]

NoHttp == HttpAnswer(None, None, None, None, <<>>)
NoFtp == FtpAnswer("other", 0, <<>>)

OptNames == {None} \cup {Some(s) : s \in Names}

World(u, h, f) == [url |-> u, http |-> h, ftp |-> f]

\* HTTP, every URL path with every pair of content-disposition file names
\* (None for a parameter, or the whole header, that is absent)
DispositionWorlds ==
    {World(Url("http", p), HttpAnswer(a, b, Some("text/plain"), Some(<<"1">>), <<1>>), NoFtp) :
        p \in UrlPaths, a \in OptNames, b \in OptNames}

\* HTTP and HTTPS, every combination of content-type, content-length and body
HeaderWorlds ==
    {World(Url(s, <<"", "a.txt">>), HttpAnswer(None, None, t, l, b), NoFtp) :
        s \in {"http", "https", "HTTP"},
        t \in {None, Some("text/plain")},
        l \in {None} \cup {Some(v) : v \in HeaderValues},
        b \in Bodies}

\* FTP, every URL path, SIZE reply and transfer
FtpWorlds ==
    {World(Url("ftp", p), NoHttp, FtpAnswer(k[1], k[2], c)) :
        p \in UrlPaths,
        k \in {<<"error", 0>>, <<"other", 0>>} \cup {<<"213", n>> : n \in 0..MaxBody},
        c \in Bodies}

\* schemes without a fetcher
OtherWorlds ==
    {World(Url(s, p), NoHttp, NoFtp) : s \in {"file", ""}, p \in {<<"">>, <<"", "a.txt">>}}

Worlds == DispositionWorlds \cup HeaderWorlds \cup FtpWorlds \cup OtherWorlds

\* the location arguments a caller passes: none, a path that does not exist,
\* an existing file, an existing directory
Locations == {None, Some(<<"new">>), Some(<<"old">>), Some(<<"d1">>)}

Init ==
    /\ \E w \in Worlds : url = w.url /\ http = w.http /\ ftp = w.ftp
    /\ arg = None
    /\ pc = "idle"
    /\ location = <<>>
    /\ r = None
    /\ size = None
    /\ pos = 0
    /\ files = InitFiles
    /\ handles = {}
    /\ conn = "none"
    /\ log = <<>>
    /\ result = None
    /\ err = None
    /\ calls = 0
    /\ first = None

world == <<url, http, ftp>>

Event(op, a) == [op |-> op, arg |-> a]

\* an exception leaves the call: the frame is torn down and every file object
\* it holds is closed (the `with` block closes f)
Raise(kind, at) ==
    /\ pc' = "raised"
    /\ err' = Some([kind |-> kind, at |-> at])
    /\ handles' = {}

-----------------------------------------------------------------------------
(* fetch: lines 119-138 *)

fetchers == [s \in {"ftp", "http", "https"} |-> IF s = "ftp" THEN "fetch_ftp" ELSE "fetch_http"]

\* the values `location` can take after lines 126-128
WorkingLocations(a) == IF a = None THEN TempPaths(files, TempDir) ELSE {a[1]}

fetch(a) ==
    /\ pc = "idle"
    /\ arg' = a
    /\ calls' = calls + 1
    /\ \E loc \in WorkingLocations(a) :
        /\ location' = loc
        /\ files' = IF a = None THEN Created(files, loc) ELSE files
        /\ log' = IF a = None THEN Append(log, Event("tempfile", loc)) ELSE log
        /\ IF urlparse(url).scheme \in DOMAIN fetchers
           THEN /\ pc' = fetchers[urlparse(url).scheme]
                /\ handles' = IF a = None THEN {Handle("temp", loc)} ELSE {}
                /\ err' = err
           ELSE Raise("Exception", "fetch")
    /\ UNCHANGED <<world, r, size, pos, conn, result, first>>

-----------------------------------------------------------------------------
(* fetch_http: lines 43-79 *)

\* line 50: requests.get(url) returns a response
http_get ==
    /\ pc = "fetch_http"
    /\ log' = Append(log, Event("GET", url.path))
    /\ r' = Some(http)
    /\ pc' = "http_resolve"
    /\ UNCHANGED <<world, arg, location, size, pos, files, handles, conn, result, err,
                   calls, first>>

\* line 50: requests.get(url) raises
http_get_fails ==
    /\ pc = "fetch_http"
    /\ log' = Append(log, Event("GET", url.path))
    /\ Raise("TransportError", "GET")
    /\ UNCHANGED <<world, arg, location, r, size, pos, files, conn, result, calls, first>>

\* the plain filename parameter tried before filename*
filename_priority_plain_first(resp, u) ==
    <<resp.fn, resp.fnstar, Some(<<PathName(PurePosixPath(urlparse(u).path))>>)>>

\* lines 54-58
filename_priority(resp, u) ==
    <<resp.fnstar, resp.fn, Some(<<PathName(PurePosixPath(urlparse(u).path))>>)>>

\* filename_found is never set: the deduction always fails
NoFilename(priority) == None

\* lines 59-64: the first entry that is not None and has a length
RECURSIVE FirstFilename(_)
FirstFilename(priority) ==
    IF priority = <<>> THEN None
    ELSE IF Head(priority) # None /\ Head(priority)[1] # <<"">> THEN Head(priority)
    ELSE FirstFilename(Tail(priority))

\* lines 52-68
http_resolve ==
    /\ pc = "http_resolve"
    /\ IF is_dir(location)
       THEN LET filename == FirstFilename(filename_priority(r[1], url))
            IN  IF filename # None
                THEN /\ location' = JoinPath(location, filename[1])
                     /\ UNCHANGED <<files, log>>
                ELSE \E t \in TempPaths(files, location) :
                        /\ location' = t
                        /\ files' = Created(files, t)
                        /\ log' = Append(log, Event("tempfile", t))
       ELSE UNCHANGED <<location, files, log>>
    /\ pc' = "http_open"
    /\ UNCHANGED <<world, arg, r, size, pos, handles, conn, result, err, calls, first>>

\* line 70: open(location, "wb")
http_open ==
    /\ pc = "http_open"
    /\ CanOpen(location)
    /\ log' = Append(log, Event("open", location))
    /\ files' = Truncated(files, location)
    /\ handles' = handles \cup {Handle("f", Resolve(location))}
    /\ pc' = "http_write"
    /\ UNCHANGED <<world, arg, location, r, size, pos, conn, result, err, calls, first>>

\* line 70: open raises (no such directory, or the path is a directory)
http_open_fails ==
    /\ pc = "http_open"
    /\ ~CanOpen(location)
    /\ log' = Append(log, Event("open", location))
    /\ Raise("OSError", "open")
    /\ UNCHANGED <<world, arg, location, r, size, pos, files, conn, result, calls, first>>

\* what f.write(r.content) leaves in the file
Written(content) == content

\* lines 70-71: the whole body is written and the `with` block closes f
http_write ==
    /\ pc = "http_write"
    /\ files' = [files EXCEPT ![Resolve(location)] = Written(r[1].content)]
    /\ handles' = handles \ {Handle("f", Resolve(location))}
    /\ pc' = "http_meta"
    /\ UNCHANGED <<world, arg, location, r, size, pos, conn, log, result, err, calls, first>>

\* line 71: f.write raises after part of the body is on disk
http_write_fails ==
    /\ pc = "http_write"
    /\ \E k \in 0..(Len(r[1].content) - 1) :
        files' = [files EXCEPT ![Resolve(location)] = SubSeq(r[1].content, 1, k)]
    /\ Raise("OSError", "write")
    /\ UNCHANGED <<world, arg, location, r, size, pos, conn, log, result, calls, first>>

\* line 73
http_content_type(resp) == resp.ctype

\* lines 74-75: a header that is absent or empty gives None
Truthy(h) == h # None /\ h[1] # <<>>
http_size(resp) == IF Truthy(resp.clen) THEN Some(IntOf(resp.clen[1])) ELSE None

\* lines 73-79
http_meta ==
    /\ pc = "http_meta"
    /\ Truthy(r[1].clen) => IsDecimal(r[1].clen[1])
    /\ result' = Some(Response(location, http_content_type(r[1]), http_size(r[1]), url))
    /\ handles' = {}
    /\ pc' = "done"
    /\ UNCHANGED <<world, arg, location, r, size, pos, files, conn, log, err, calls, first>>

\* line 75: int(size) raises ValueError
http_meta_fails ==
    /\ pc = "http_meta"
    /\ Truthy(r[1].clen) /\ ~IsDecimal(r[1].clen[1])
    /\ Raise("ValueError", "int")
    /\ UNCHANGED <<world, arg, location, r, size, pos, files, conn, log, result, calls, first>>

-----------------------------------------------------------------------------
(* fetch_ftp: lines 82-116 *)

\* lines 88-93
ftp_path(u) == PurePosixPath(urlparse(u).path)
ftp_directory(u) == PathParent(ftp_path(u))
ftp_filename(u) == PathName(ftp_path(u))

\* lines 95-96
ftp_location(loc, u) == IF is_dir(loc) THEN JoinPath(loc, <<ftp_filename(u)>>) ELSE loc

\* lines 88-98: FTP(netloc) opens the control connection
ftp_connect ==
    /\ pc = "fetch_ftp"
    /\ location' = ftp_location(location, url)
    /\ log' = Append(log, Event("connect", <<urlparse(url).netloc>>))
    /\ conn' = "open"
    /\ pc' = "ftp_login"
    /\ UNCHANGED <<world, arg, r, size, pos, files, handles, result, err, calls, first>>

\* line 98: FTP(netloc) raises, no connection exists
ftp_connect_fails ==
    /\ pc = "fetch_ftp"
    /\ location' = ftp_location(location, url)
    /\ log' = Append(log, Event("connect", <<urlparse(url).netloc>>))
    /\ Raise("TransportError", "connect")
    /\ UNCHANGED <<world, arg, r, size, pos, files, conn, result, calls, first>>

\* line 99
ftp_login ==
    /\ pc = "ftp_login"
    /\ log' = Append(log, Event("login", <<>>))
    /\ pc' = "ftp_size"
    /\ UNCHANGED <<world, arg, location, r, size, pos, files, handles, conn, result, err,
                   calls, first>>

\* line 99: login raises
ftp_login_fails ==
    /\ pc = "ftp_login"
    /\ log' = Append(log, Event("login", <<>>))
    /\ Raise("TransportError", "login")
    /\ UNCHANGED <<world, arg, location, r, size, pos, files, conn, result, calls, first>>

\* ftplib.FTP.size: the number of a 213 reply, None for another positive reply
ftp_size_value(reply) == IF reply.kind = "213" THEN Some(reply.n) ELSE None

\* line 101
ftp_size ==
    /\ pc = "ftp_size"
    /\ ftp.reply.kind # "error"
    /\ log' = Append(log, Event("SIZE", PathStr(ftp_path(url))))
    /\ size' = ftp_size_value(ftp.reply)
    /\ pc' = "ftp_cwd"
    /\ UNCHANGED <<world, arg, location, r, pos, files, handles, conn, result, err,
                   calls, first>>

\* line 101: the server answers SIZE with an error reply, sendcmd raises
ftp_size_fails ==
    /\ pc = "ftp_size"
    /\ ftp.reply.kind = "error"
    /\ log' = Append(log, Event("SIZE", PathStr(ftp_path(url))))
    /\ Raise("error_perm", "SIZE")
    /\ UNCHANGED <<world, arg, location, r, size, pos, files, conn, result, calls, first>>

\* RETR prepared without changing the working directory
ftp_cwd_skipped ==
    /\ pc = "ftp_cwd"
    /\ pc' = "ftp_open"
    /\ UNCHANGED <<world, arg, location, r, size, pos, files, handles, conn, log, result, err,
                   calls, first>>

\* line 109
ftp_cwd ==
    /\ pc = "ftp_cwd"
    /\ log' = Append(log, Event("CWD", PathStr(ftp_directory(url))))
    /\ pc' = "ftp_open"
    /\ UNCHANGED <<world, arg, location, r, size, pos, files, handles, conn, result, err,
                   calls, first>>

\* line 109: cwd raises
ftp_cwd_fails ==
    /\ pc = "ftp_cwd"
    /\ log' = Append(log, Event("CWD", PathStr(ftp_directory(url))))
    /\ Raise("error_perm", "CWD")
    /\ UNCHANGED <<world, arg, location, r, size, pos, files, conn, result, calls, first>>

\* line 111: open(location, "wb")
ftp_open ==
    /\ pc = "ftp_open"
    /\ CanOpen(location)
    /\ log' = Append(log, Event("open", location))
    /\ files' = Truncated(files, location)
    /\ handles' = handles \cup {Handle("f", Resolve(location))}
    /\ pc' = "ftp_retr"
    /\ UNCHANGED <<world, arg, location, r, size, pos, conn, result, err, calls, first>>

\* line 111: open raises
ftp_open_fails ==
    /\ pc = "ftp_open"
    /\ ~CanOpen(location)
    /\ log' = Append(log, Event("open", location))
    /\ Raise("OSError", "open")
    /\ UNCHANGED <<world, arg, location, r, size, pos, files, conn, result, calls, first>>

\* lines 110, 112: retrbinary sends "RETR <filename>"
ftp_retr ==
    /\ pc = "ftp_retr"
    /\ log' = Append(log, Event("RETR", <<ftp_filename(url)>>))
    /\ pos' = 0
    /\ pc' = "ftp_data"
    /\ UNCHANGED <<world, arg, location, r, size, files, handles, conn, result, err,
                   calls, first>>

\* line 112: retrbinary hands the next chunk to f.write
ftp_data ==
    /\ pc = "ftp_data"
    /\ pos < Len(ftp.chunks)
    /\ files' = [files EXCEPT ![Resolve(location)] = Append(@, ftp.chunks[pos + 1])]
    /\ pos' = pos + 1
    /\ UNCHANGED <<world, arg, pc, location, r, size, handles, conn, log, result, err,
                   calls, first>>

\* line 112: retrbinary raises, at the RETR reply or in the middle of the
\* transfer; the `with` block closes f
ftp_retr_fails ==
    /\ pc = "ftp_data"
    /\ Raise("TransportError", "RETR")
    /\ UNCHANGED <<world, arg, location, r, size, pos, files, conn, log, result, calls, first>>

\* retrbinary returning before the data connection is drained
TransferCutShort(n, chunks) == n >= 0

\* whether retrbinary returns: the data connection delivered every chunk
TransferComplete(n, chunks) == n = Len(chunks)

\* lines 111-112: retrbinary returns and the `with` block closes f
ftp_retr_done ==
    /\ pc = "ftp_data"
    /\ TransferComplete(pos, ftp.chunks)
    /\ handles' = handles \ {Handle("f", Resolve(location))}
    /\ pc' = "ftp_close"
    /\ UNCHANGED <<world, arg, location, r, size, pos, files, conn, log, result, err,
                   calls, first>>

\* lines 102-107: mime.guess_type returns a pair, which is never false
ftp_content_type(u) == guess_type(ftp_filename(u))

\* lines 113-116
ftp_close ==
    /\ pc = "ftp_close"
    /\ conn' = "closed"
    /\ log' = Append(log, Event("close", <<>>))
    /\ result' = Some(Response(location, ftp_content_type(url), size, url))
    /\ handles' = {}
    /\ pc' = "done"
    /\ UNCHANGED <<world, arg, location, r, size, pos, files, err, calls, first>>

-----------------------------------------------------------------------------
(* Specifications *)

\* one call of fetch, with any location argument
call ==
    /\ calls = 0
    /\ \E a \in Locations : fetch(a)

Steps ==
    \/ http_get \/ http_get_fails \/ http_resolve
    \/ http_open \/ http_open_fails
    \/ http_write \/ http_write_fails
    \/ http_meta \/ http_meta_fails
    \/ ftp_connect \/ ftp_connect_fails
    \/ ftp_login \/ ftp_login_fails
    \/ ftp_size \/ ftp_size_fails
    \/ ftp_cwd \/ ftp_cwd_fails
    \/ ftp_open \/ ftp_open_fails
    \/ ftp_retr \/ ftp_data \/ ftp_retr_fails \/ ftp_retr_done
    \/ ftp_close

Next == call \/ Steps

Spec == Init /\ [][Next]_vars

\* two calls of fetch with the same URL against the same servers, the first
\* into the directory d1 and the second into the directory d2, both empty
call_twice ==
    /\ calls < 2
    /\ fetch(Some(IF calls = 0 THEN <<"d1">> ELSE <<"d2">>))

\* the first call has returned or raised: the caller keeps its outcome
again ==
    /\ pc \in {"done", "raised"}
    /\ calls = 1
    /\ first' = Some([result |-> result, err |-> err])
    /\ pc' = "idle"
    /\ r' = None
    /\ size' = None
    /\ pos' = 0
    /\ conn' = "none"
    /\ log' = <<>>
    /\ result' = None
    /\ err' = None
    /\ UNCHANGED <<world, arg, location, files, handles, calls>>

NextTwice == call_twice \/ again \/ Steps

SpecTwice == Init /\ [][NextTwice]_vars

-----------------------------------------------------------------------------
(* Vocabulary of the properties *)

Scheme == urlparse(url).scheme
IsHttp == Scheme \in {"http", "https"}
IsFtp == Scheme = "ftp"
NetworkOps == {"GET", "connect", "login", "SIZE", "CWD", "RETR", "close"}
NetworkLog == SelectSeq(log, LAMBDA e : e.op \in NetworkOps)
\* the bytes the server serves for the URL
Served == IF IsFtp THEN ftp.chunks ELSE http.content
NonEmpty(f) == f # None /\ f[1] # <<"">>
UrlName == PathName(PurePosixPath(url.path))
Last(path) == path[Len(path)]
\* every file other than those at the paths in `except` is as it was before
\* the call
Untouched(except) ==
    /\ \A q \in DOMAIN InitFiles \ except : q \in DOMAIN files /\ files[q] = InitFiles[q]
    /\ DOMAIN files \subseteq DOMAIN InitFiles \cup except

-----------------------------------------------------------------------------
(* Properties *)

\* C1: for a URL whose scheme has no fetcher and for any location argument,
\* the call raises the unsupported-scheme exception, and up to then no
\* network command was issued and no file was created or modified.
C1_UnsupportedSchemeNoSideEffect ==
    (Scheme \notin {"http", "https", "ftp"} /\ pc # "idle") =>
        /\ pc = "raised"
        /\ err = Some([kind |-> "Exception", at |-> "fetch"])
        /\ NetworkLog = <<>>
        /\ files = InitFiles

\* C2: in fetch_http with a directory as destination, the file name is the
\* first non-empty one of filename*, filename and the last segment of the
\* URL path, and no temporary file is created; when all three are absent or
\* empty, the file is a new temporary file inside that directory.
C2_FilenamePriority ==
    (pc = "http_open" /\ arg # None /\ arg[1] \in Dirs) =>
        IF NonEmpty(r[1].fnstar)
        THEN location = JoinPath(arg[1], r[1].fnstar[1]) /\ Untouched({})
        ELSE IF NonEmpty(r[1].fn)
        THEN location = JoinPath(arg[1], r[1].fn[1]) /\ Untouched({})
        ELSE IF UrlName # ""
        THEN location = Append(arg[1], UrlName) /\ Untouched({})
        ELSE /\ Parent(location) = arg[1]
             /\ Last(location) \in TmpNames
             /\ location \notin DOMAIN InitFiles
             /\ Untouched({location})
             /\ files[location] = <<>>

\* C2 witness: filename* is present but empty, filename is not empty and
\* differs from the URL's last segment, and the directory case has run.
C2_Witness ==
    /\ pc = "http_open" /\ arg = Some(<<"d1">>)
    /\ r[1].fnstar = Some(<<"">>)
    /\ r[1].fn = Some(<<"..", "a.txt">>)
    /\ UrlName = "a.txt"
    /\ location = <<"d1", "..", "a.txt">>

\* C3: a successful fetch whose destination is a path that is not an
\* existing directory writes the content exactly at that path and returns
\* that path, whatever names the server or the URL suggest; no other file is
\* created.
C3_LiteralPath ==
    (pc = "done" /\ arg # None /\ arg[1] \notin Dirs) =>
        /\ result[1].location = arg[1]
        /\ arg[1] \in DOMAIN files
        /\ files[arg[1]] = Served
        /\ Untouched({arg[1]})

\* C3 witness: a fetch into a new path succeeded although the server
\* suggested a file name.
C3_Witness ==
    /\ pc = "done" /\ arg = Some(<<"new">>)
    /\ NonEmpty(http.fn) /\ IsHttp
    /\ files[<<"new">>] = <<1>>

\* C4: whenever fetch returns a result, the returned location names an
\* existing file that is closed and holds all the bytes served, in order;
\* a result exists only for a call that returned.
C4_ResultFileComplete ==
    /\ result # None => pc = "done"
    /\ pc = "done" =>
        /\ result # None
        /\ Walk(<<>>, result[1].location).ok
        /\ Resolve(result[1].location) \in DOMAIN files
        /\ files[Resolve(result[1].location)] = Served
        /\ handles = {}

\* C4 witness: an FTP transfer of two chunks that differ has returned.
C4_Witness ==
    /\ pc = "done" /\ IsFtp
    /\ ftp.chunks = <<0, 1>>
    /\ result # None

\* C5: after a successful fetch, a size that is present equals the number of
\* bytes written to the file at the returned location.
C5_SizeIsLength ==
    (pc = "done" /\ result[1].size # None) =>
        result[1].size[1] = Len(files[Resolve(result[1].location)])

\* C6: missing metadata never fails a fetch: a call does not raise where it
\* reads a content-length that is absent or empty or where the FTP server
\* gives no size, and the field of the result is then absent.
C6_MissingMetadataNeverFails ==
    /\ (pc = "raised" /\ IsHttp /\ ~Truthy(http.clen)) => err[1].at # "int"
    /\ (pc = "raised" /\ IsFtp /\ ftp.reply.kind # "213") => err[1].at # "SIZE"
    /\ (pc = "done" /\ IsHttp /\ http.ctype = None) => result[1].content_type = None
    /\ (pc = "done" /\ IsHttp /\ ~Truthy(http.clen)) => result[1].size = None
    /\ (pc = "done" /\ IsFtp /\ ftp.reply.kind # "213") => result[1].size = None

\* C7: once the control connection is open, it is closed when fetch_ftp
\* ends: after RETR completes, and after SIZE, CWD, the open of the
\* destination file or RETR fails.
C7_ConnectionClosed ==
    (/\ conn # "none"
     /\ \/ pc = "done"
        \/ pc = "raised" /\ err[1].at \in {"SIZE", "CWD", "open", "RETR"}) =>
        conn = "closed"

\* the two calls of SpecTwice have both returned
BothReturned == calls = 2 /\ pc = "done" /\ first # None /\ first[1].result # None
FirstLocation == first[1].result[1].location
SecondLocation == result[1].location

\* C8 as stated: two fetches of the same URL into two distinct empty
\* directories yield files with identical content and identical names, for
\* every URL and every combination of response headers.
C8_SameNameAlways ==
    BothReturned =>
        /\ files[Resolve(FirstLocation)] = files[Resolve(SecondLocation)]
        /\ Last(FirstLocation) = Last(SecondLocation)

\* whether a file name can be inferred
HasCandidate == IsFtp \/ NonEmpty(http.fnstar) \/ NonEmpty(http.fn) \/ UrlName # ""

\* C8 amended: the two files have identical content; their names are
\* identical whenever a file name can be inferred (filename*, filename or
\* the URL's last segment is non-empty); otherwise each call creates its own
\* temporary file, inside its own directory.
C8_SameNameWhenInferred ==
    BothReturned =>
        /\ files[Resolve(FirstLocation)] = files[Resolve(SecondLocation)]
        /\ HasCandidate => Last(FirstLocation) = Last(SecondLocation)
        /\ ~HasCandidate =>
            /\ Parent(FirstLocation) = <<"d1">> /\ Last(FirstLocation) \in TmpNames
            /\ Parent(SecondLocation) = <<"d2">> /\ Last(SecondLocation) \in TmpNames

\* C8 witness: both calls returned and inferred the name from the URL.
C8_Witness ==
    /\ BothReturned /\ IsHttp
    /\ http.fnstar = None /\ http.fn = None
    /\ FirstLocation = <<"d1", "a.txt">>
    /\ SecondLocation = <<"d2", "a.txt">>

\* the steps of fetch_ftp in order
FtpSteps ==
    <<Event("connect", <<"host">>),
      Event("login", <<>>),
      Event("SIZE", PathStr(PurePosixPath(url.path))),
      Event("CWD", PathStr(PathParent(PurePosixPath(url.path)))),
      Event("open", location),
      Event("RETR", <<UrlName>>),
      Event("close", <<>>)>>
FtpLog == SelectSeq(log, LAMBDA e : e.op # "tempfile")
StepOf(at) ==
    CASE at = "connect" -> 1 [] at = "login" -> 2 [] at = "SIZE" -> 3
      [] at = "CWD" -> 4 [] at = "open" -> 5 [] at = "RETR" -> 6

\* C9: fetch_ftp issues connect, login, SIZE of the URL path, CWD to its
\* parent, open of the destination, RETR of the leaf name and close in this
\* order, each only after the earlier ones succeeded: a call that raised
\* stopped at the step that failed, and the destination file is neither
\* created nor truncated before login, SIZE and CWD have succeeded.
C9_FtpStepOrder ==
    IsFtp =>
        /\ Len(FtpLog) <= Len(FtpSteps)
        /\ FtpLog = SubSeq(FtpSteps, 1, Len(FtpLog))
        /\ pc = "raised" => Len(FtpLog) = StepOf(err[1].at)
        /\ pc = "done" => FtpLog = FtpSteps
        /\ Len(FtpLog) < 5 =>
            /\ Untouched(IF arg = None THEN {location} ELSE {})
            /\ arg = None /\ pc # "idle" => files[location] = <<>>
            /\ \A h \in handles : h.name # "f"

\* C9 witness: an FTP fetch over an existing file went through every step.
C9_Witness ==
    /\ IsFtp /\ pc = "done" /\ arg = Some(<<"old">>)
    /\ Len(FtpLog) = 7
    /\ url.path = <<"", "..", "a.txt">>

\* C10: a successful fetch into an existing directory writes a direct child
\* of that directory and creates or overwrites no file outside it.
C10_InsideDirectory ==
    (pc = "done" /\ arg # None /\ arg[1] \in Dirs) =>
        /\ Parent(Resolve(result[1].location)) = arg[1]
        /\ Resolve(result[1].location) # arg[1]
        /\ Untouched({Resolve(result[1].location)})

=============================================================================
